---- MODULE Spec2Model ----
(***************************************************************************)
(* Model of src/boiler.py: the Boiler plant aggregate.                     *)
(*                                                                         *)
(* A Boiler object is a Python object whose attributes appear as the       *)
(* methods assign them; hasattr() on those attributes is the program's     *)
(* state machine.  The object is modelled as a function from the names of  *)
(* the attributes it currently has to their values.  Numbers are exact     *)
(* rationals <<numerator, denominator>> in lowest terms, so that the       *)
(* divisions of the source (1/eff, /cpwater) are computed, not assumed.    *)
(***************************************************************************)
EXTENDS Integers, Sequences, FiniteSets, TLC

VARIABLES self, last, done, due

vars == <<self, last, done, due>>

(***************************************************************************)
(* Bounds of the input sets.                                               *)
(***************************************************************************)
MaxPressure == 3
MaxFlue == 3
MaxHeat == 1

(***************************************************************************)
(* Exact rational arithmetic.                                              *)
(***************************************************************************)
Abs(n) == IF n < 0 THEN -n ELSE n

RECURSIVE GCD(_, _)
GCD(a, b) == IF b = 0 THEN a ELSE GCD(b, a % b)

R(n, d) ==
    LET s == IF d < 0 THEN -1 ELSE 1
        g == GCD(Abs(n), Abs(d))
    IN  <<(s * n) \div g, (s * d) \div g>>

N(n) == <<n, 1>>

Add(a, b) ==
    LET g == GCD(a[2], b[2])
    IN  R(a[1] * (b[2] \div g) + b[1] * (a[2] \div g), a[2] * (b[2] \div g))
Sub(a, b) == Add(a, <<-b[1], b[2]>>)
Mul(a, b) == R(a[1] * b[1], a[2] * b[2])
Div(a, b) == R(a[1] * b[2], a[2] * b[1])
Lt(a, b) ==
    LET g == GCD(a[2], b[2])
    IN  a[1] * (b[2] \div g) < b[1] * (a[2] \div g)
Le(a, b) == ~Lt(b, a)
Gt(a, b) == Lt(b, a)
Ge(a, b) == Le(b, a)

Zero == N(0)
One == N(1)
None == <<>>

(***************************************************************************)
(* Module constants of boiler.py.                                          *)
(***************************************************************************)
specific_volume == R(1602, 100000)
cpair == N(1)
cpwater == R(41855, 10000)

(***************************************************************************)
(* Attribute access on the object.                                         *)
(***************************************************************************)
hasattr(s, a) == a \in DOMAIN s

setattr(s, a, v) == [x \in DOMAIN s \cup {a} |-> IF x = a THEN v ELSE s[x]]

(***************************************************************************)
(* Outcomes of a call: the object as the call leaves it, how the call      *)
(* ended ("ok" or the kind of the exception raised) and the value returned.*)
(***************************************************************************)
Ok(s, v) == [self |-> s, kind |-> "ok", ret |-> v]
Raise(s, k) == [self |-> s, kind |-> k, ret |-> None]

(***************************************************************************)
(* The steam property provider (module state, not part of src/): a lookup  *)
(* of a saturated state by pressure or by temperature and quality, which   *)
(* fails outside the range of its tables.                                  *)
(***************************************************************************)
PInRange(P) == Ge(P, N(100)) /\ Le(P, N(200))
TInRange(T) == Ge(T, N(1)) /\ Le(T, N(374))

State_P_getTemp(P) == Add(N(100), Div(Sub(P, N(100)), N(5)))
State_T_getEnthalpy(T, x) ==
    IF x = 0 THEN Mul(N(4), T) ELSE Add(N(2500), Mul(N(2), T))
State_P_getEnthalpy(P, x) == State_T_getEnthalpy(State_P_getTemp(P), x)

(***************************************************************************)
(* __init__(self, P1)                                                      *)
(***************************************************************************)
init(P1) ==
    [a \in {"input_pressure", "pump_work", "economiser_heat", "air_heat",
            "superheater_heat"} |->
        IF a = "input_pressure" THEN P1 ELSE Zero]

(***************************************************************************)
(* economiser(self, f1, f2)                                                *)
(***************************************************************************)
economiser_flue_halfswap(s, f1, f2) ==
    LET cold == IF Gt(f2, f1) THEN f1 ELSE f2
        s1 == setattr(s, "flue_T1", f1)
        s2 == setattr(s1, "flue_T2", cold)
    IN  setattr(s2, "econ_T2",
                Add(s2["econ_T1"],
                    Div(Mul(cpair, Sub(s2["flue_T1"], s2["flue_T2"])), cpwater)))

economiser_flue_noswap(s, f1, f2) ==
    LET s1 == setattr(s, "flue_T1", f1)
        s2 == setattr(s1, "flue_T2", f2)
    IN  setattr(s2, "econ_T2",
                Add(s2["econ_T1"],
                    Div(Mul(cpair, Sub(s2["flue_T1"], s2["flue_T2"])), cpwater)))

economiser_flue_with_heat(s, f1, f2) ==
    LET s3 == economiser_flue_noswap(s, IF Gt(f2, f1) THEN f2 ELSE f1,
                                     IF Gt(f2, f1) THEN f1 ELSE f2)
    IN  setattr(s3, "economiser_heat",
                Mul(cpwater, Sub(s3["econ_T2"], s3["econ_T1"])))

economiser_flue_accumulate(s, f1, f2) ==
    LET hot == IF Gt(f2, f1) THEN f2 ELSE f1
        cold == IF Gt(f2, f1) THEN f1 ELSE f2
        base == IF hasattr(s, "econ_T2") THEN s["econ_T2"] ELSE s["econ_T1"]
        s1 == setattr(s, "flue_T1", hot)
        s2 == setattr(s1, "flue_T2", cold)
    IN  setattr(s2, "econ_T2",
                Add(base, Div(Mul(cpair, Sub(hot, cold)), cpwater)))

economiser_flue(s, f1, f2) ==
    LET hot == IF Gt(f2, f1) THEN f2 ELSE f1
        cold == IF Gt(f2, f1) THEN f1 ELSE f2
        s1 == setattr(s, "flue_T1", hot)
        s2 == setattr(s1, "flue_T2", cold)
    IN  setattr(s2, "econ_T2",
                Add(s2["econ_T1"],
                    Div(Mul(cpair, Sub(s2["flue_T1"], s2["flue_T2"])), cpwater)))

economiser_sets_final_temp(s, f1, f2) ==
    LET s1 == setattr(s, "economiser_present", TRUE)
        P1 == IF hasattr(s1, "pump_present")
              THEN s1["output_pressure_pump"]
              ELSE s1["input_pressure"]
        s2 == economiser_flue(setattr(s1, "econ_T1", State_P_getTemp(P1)), f1, f2)
    IN  IF ~PInRange(P1)
        THEN Raise(s1, "InvalidStateError")
        ELSE Ok(setattr(s2, "final_temp", s2["econ_T2"]), None)

economiser(s, f1, f2) ==
    LET s1 == setattr(s, "economiser_present", TRUE)
        P1 == IF hasattr(s1, "pump_present")
              THEN s1["output_pressure_pump"]
              ELSE s1["input_pressure"]
    IN  IF ~PInRange(P1)
        THEN Raise(s1, "InvalidStateError")
        ELSE Ok(economiser_flue(setattr(s1, "econ_T1", State_P_getTemp(P1)), f1, f2),
                None)

(***************************************************************************)
(* effectiveness(self)                                                     *)
(***************************************************************************)
effectiveness_caching(s) ==
    IF ~hasattr(s, "economiser_present") THEN Raise(s, "ValueError")
    ELSE IF ~({"econ_T2", "econ_T1", "flue_T1"} \subseteq DOMAIN s)
    THEN Raise(s, "AttributeError")
    ELSE IF Sub(s["flue_T1"], s["econ_T1"]) = Zero
    THEN Raise(s, "ZeroDivisionError")
    ELSE
        LET e == Div(Sub(s["econ_T2"], s["econ_T1"]), Sub(s["flue_T1"], s["econ_T1"]))
        IN  Ok(setattr(s, "effectiveness", e), e)

effectiveness(s) ==
    IF ~hasattr(s, "economiser_present") THEN Raise(s, "ValueError")
    ELSE IF ~({"econ_T2", "econ_T1", "flue_T1"} \subseteq DOMAIN s)
    THEN Raise(s, "AttributeError")
    ELSE IF Sub(s["flue_T1"], s["econ_T1"]) = Zero
    THEN Raise(s, "ZeroDivisionError")
    ELSE Ok(s, Div(Sub(s["econ_T2"], s["econ_T1"]), Sub(s["flue_T1"], s["econ_T1"])))

(***************************************************************************)
(* _check_eff(eff): the function as defined, with the single parameter     *)
(* eff, and the call self._check_eff(eff) the stages make.  The call is a  *)
(* bound-method call: it passes the object and eff to a function that      *)
(* takes one parameter, so argument binding raises TypeError before the    *)
(* body runs.                                                              *)
(***************************************************************************)
check_eff_params == <<"eff">>

check_eff(s, eff) ==
    IF Gt(eff, One) \/ Lt(eff, Zero) THEN Raise(s, "ValueError") ELSE Ok(s, eff)

self_check_eff(s, eff) ==
    LET passed == <<s, eff>>
    IN  IF Len(passed) # Len(check_eff_params)
        THEN Raise(s, "TypeError")
        ELSE check_eff(s, passed[Len(passed)])

(***************************************************************************)
(* feed_pump(self, P2, eff=1)                                              *)
(***************************************************************************)
feed_pump_body(s, P2, eff) ==
    LET s1 == setattr(s, "pump_present", TRUE)
        s2 == setattr(s1, "output_pressure_pump", P2)
        s3 == setattr(s2, "pump_work",
                      Mul(specific_volume, Sub(P2, s2["input_pressure"])))
    IN  IF eff = One THEN Ok(s3, None)
        ELSE IF eff = Zero THEN Raise(s3, "ZeroDivisionError")
        ELSE Ok(setattr(s3, "pump_work", Mul(s3["pump_work"], Div(One, eff))), None)

feed_pump(s, P2, eff) ==
    LET c == self_check_eff(s, eff)
    IN  IF c.kind # "ok" THEN Raise(s, c.kind) ELSE feed_pump_body(s, P2, c.ret)

(***************************************************************************)
(* air_preheater(self, Tp1, Tp2=None, eff=1)                               *)
(***************************************************************************)
air_preheater_heat(s, Tp1, Tp2, eff) ==
    LET s1 == setattr(s, "air_heat", Mul(cpair, Sub(Tp2, Tp1)))
    IN  IF eff = One THEN Ok(s1, None)
        ELSE IF eff = Zero THEN Raise(s1, "ZeroDivisionError")
        ELSE Ok(setattr(s1, "air_heat", Mul(s1["air_heat"], Div(One, eff))), None)

air_preheater_body(s, Tp1, Tp2, eff) ==
    IF hasattr(s, "economiser_present")
    THEN IF ~hasattr(s, "flue_T2") THEN Raise(s, "AttributeError")
         ELSE air_preheater_heat(s, Tp1, s["flue_T2"], eff)
    ELSE IF Tp2 = None \/ Tp2 = Zero THEN Raise(s, "ValueError")
    ELSE air_preheater_heat(s, Tp1, Tp2, eff)

air_preheater(s, Tp1, Tp2, eff) ==
    LET c == self_check_eff(s, eff)
    IN  IF c.kind # "ok" THEN Raise(s, c.kind)
        ELSE air_preheater_body(s, Tp1, Tp2, c.ret)

(***************************************************************************)
(* boiler(self, eff=1)                                                     *)
(***************************************************************************)
boiler_heat(s, h1, h2, Tb, eff) ==
    LET s1 == setattr(s, "h1", h1)
        s2 == setattr(s1, "h2", h2)
        s3 == setattr(s2, "final_temp", Tb)
        s4 == setattr(s3, "boiler_heat", Sub(s3["h2"], s3["h1"]))
    IN  IF eff = One THEN Ok(s4, None)
        ELSE Ok(setattr(s4, "boiler_heat", Mul(s4["boiler_heat"], eff)), None)

boiler_at_pressure(s, Pb, eff) ==
    IF ~PInRange(Pb) THEN Raise(s, "InvalidStateError")
    ELSE boiler_heat(s, State_P_getEnthalpy(Pb, 0), State_P_getEnthalpy(Pb, 1),
                     State_P_getTemp(Pb), eff)

boiler_body(s, eff) ==
    IF hasattr(s, "economiser_present")
    THEN IF ~hasattr(s, "econ_T2") THEN Raise(s, "AttributeError")
         ELSE IF ~TInRange(s["econ_T2"]) THEN Raise(s, "InvalidStateError")
         ELSE boiler_heat(s, State_T_getEnthalpy(s["econ_T2"], 0),
                          State_T_getEnthalpy(s["econ_T2"], 1), s["econ_T2"], eff)
    ELSE IF hasattr(s, "pump_present")
    THEN boiler_at_pressure(s, s["output_pressure_pump"], eff)
    ELSE boiler_at_pressure(s, s["input_pressure"], eff)

boiler(s, eff) ==
    LET c == self_check_eff(s, eff)
    IN  IF c.kind # "ok" THEN Raise(s, c.kind) ELSE boiler_body(s, c.ret)

(***************************************************************************)
(* superheater(self, final_temp, eff=1)                                    *)
(***************************************************************************)
superheater_body(s, final_temp, eff) ==
    IF ~hasattr(s, "boiler_heat") THEN Raise(s, "ValueError")
    ELSE
        LET s1 == setattr(s, "superheater_heat",
                          IF Lt(final_temp, s["final_temp"]) THEN Zero
                          ELSE Mul(cpwater, Sub(final_temp, s["final_temp"])))
            s2 == setattr(s1, "final_temp", final_temp)
        IN  IF eff = One THEN Ok(s2, None)
            ELSE IF eff = Zero THEN Raise(s2, "ZeroDivisionError")
            ELSE Ok(setattr(s2, "superheater_heat",
                            Mul(s2["superheater_heat"], Div(One, eff))), None)

superheater(s, final_temp, eff) ==
    LET c == self_check_eff(s, eff)
    IN  IF c.kind # "ok" THEN Raise(s, c.kind)
        ELSE superheater_body(s, final_temp, c.ret)

(***************************************************************************)
(* efficiency(self, heat_supplied) and actual_heat(self)                   *)
(***************************************************************************)
efficiency_unguarded(s, heat_supplied) ==
    IF ~hasattr(s, "boiler_heat") THEN Raise(s, "AttributeError")
    ELSE IF heat_supplied = Zero THEN Raise(s, "ZeroDivisionError")
    ELSE Ok(s, Div(Sub(s["boiler_heat"], s["pump_work"]), heat_supplied))

efficiency(s, heat_supplied) ==
    IF ~hasattr(s, "boiler_heat") THEN Raise(s, "ValueError")
    ELSE IF heat_supplied = Zero THEN Raise(s, "ZeroDivisionError")
    ELSE
        LET heat == Sub(s["boiler_heat"],
                        Add(Add(Add(s["economiser_heat"], s["air_heat"]),
                                s["pump_work"]),
                            s["superheater_heat"]))
        IN  Ok(s, Div(heat, heat_supplied))

actual_heat(s) ==
    IF ~hasattr(s, "boiler_heat") THEN Raise(s, "AttributeError")
    ELSE Ok(s, Sub(s["boiler_heat"],
                   Add(Add(Add(s["economiser_heat"], s["air_heat"]),
                           s["pump_work"]),
                       s["superheater_heat"])))

(***************************************************************************)
(* Input sets.                                                             *)
(***************************************************************************)
Pressures == {N(50 * k) : k \in 1..MaxPressure}
FlueTemps == {N(100 * k) : k \in 1..MaxFlue}
Effs == {N(-1), Zero, R(1, 2), One, N(2)}
AirIn == {N(20)}
AirOut == {None, Zero, N(30)}
Targets == {N(50), N(100 * MaxFlue)}
Heats == {N(1000 * k) : k \in 0..MaxHeat}

(***************************************************************************)
(* What the documented contract of the boiler stage accepts: an efficiency *)
(* in the unit interval and an operating point, chosen as boiler() chooses *)
(* it, inside the provider's tables.  The history variable due records     *)
(* that such a boiler call has been made (the one stage that superheater,  *)
(* efficiency and actual_heat require); done records the methods that have *)
(* returned normally.                                                      *)
(***************************************************************************)
InUnit(eff) == Ge(eff, Zero) /\ Le(eff, One)

BoilerPointInRange(s) ==
    IF hasattr(s, "economiser_present")
    THEN hasattr(s, "econ_T2") /\ TInRange(s["econ_T2"])
    ELSE IF hasattr(s, "pump_present") THEN PInRange(s["output_pressure_pump"])
    ELSE PInRange(s["input_pressure"])

Call(op, args, pre, r) ==
    [op |-> op, args |-> args, pre |-> pre, kind |-> r.kind, ret |-> r.ret]

Init ==
    /\ \E P1 \in Pressures : self = init(P1)
    /\ last = [op |-> "__init__", args |-> <<>>, pre |-> self, kind |-> "ok",
               ret |-> None]
    /\ done = {}
    /\ due = {}

Finish(op, args, r, contract) ==
    /\ self' = r.self
    /\ last' = Call(op, args, self, r)
    /\ done' = IF r.kind = "ok" THEN done \cup {op} ELSE done
    /\ due' = IF contract THEN due \cup {op} ELSE due

Economiser ==
    \E f1 \in FlueTemps, f2 \in FlueTemps :
        Finish("economiser", <<f1, f2>>, economiser(self, f1, f2), FALSE)

Effectiveness ==
    Finish("effectiveness", <<>>, effectiveness(self), FALSE)

FeedPump ==
    \E P2 \in Pressures, eff \in Effs :
        Finish("feed_pump", <<P2, eff>>, feed_pump(self, P2, eff), FALSE)

AirPreheater ==
    \E Tp1 \in AirIn, Tp2 \in AirOut, eff \in Effs :
        Finish("air_preheater", <<Tp1, Tp2, eff>>, air_preheater(self, Tp1, Tp2, eff),
               FALSE)

BoilerStage ==
    \E eff \in Effs :
        Finish("boiler", <<eff>>, boiler(self, eff),
               InUnit(eff) /\ BoilerPointInRange(self))

Superheater ==
    \E t \in Targets, eff \in Effs :
        Finish("superheater", <<t, eff>>, superheater(self, t, eff), FALSE)

Efficiency ==
    \E h \in Heats : Finish("efficiency", <<h>>, efficiency(self, h), FALSE)

ActualHeat ==
    Finish("actual_heat", <<>>, actual_heat(self), FALSE)

Next ==
    \/ FeedPump
    \/ Economiser
    \/ Effectiveness
    \/ AirPreheater
    \/ BoilerStage
    \/ Superheater
    \/ Efficiency
    \/ ActualHeat

Spec == Init /\ [][Next]_vars

(***************************************************************************)
(* Properties.                                                             *)
(***************************************************************************)
EffStages == {"feed_pump", "air_preheater", "boiler", "superheater"}
EffOf(c) == c.args[Len(c.args)]
FlueAttrs == {"flue_T1", "flue_T2", "econ_T2"}

(* C1: a stage called with an efficiency outside [0,1] is rejected with    *)
(* the error kind of the other validation failures (ValueError) and the    *)
(* object is left as it was.                                               *)
C1_InvalidEfficiencyRejected ==
    (last.op \in EffStages /\ ~InUnit(EffOf(last)))
        => (last.kind = "ValueError" /\ self = last.pre)

(* C2: a call that fails, for whatever reason, leaves the set of           *)
(* attributes and their values exactly as they were before the call.       *)
C2_AtomicOnFailure ==
    last.kind # "ok" => self = last.pre

(* C3: feed_pump(P2, e) with 0 < e <= 1 completes, marks the pump fitted,  *)
(* records P2 and sets pump_work to specific_volume * (P2 - P1), divided   *)
(* by e when e < 1.                                                        *)
C3_FeedPumpWork ==
    (last.op = "feed_pump" /\ Gt(EffOf(last), Zero) /\ Le(EffOf(last), One))
        => /\ last.kind = "ok"
           /\ hasattr(self, "pump_present")
           /\ hasattr(self, "output_pressure_pump")
           /\ self["output_pressure_pump"] = last.args[1]
           /\ self["pump_work"] =
                  Div(Mul(specific_volume,
                          Sub(last.args[1], last.pre["input_pressure"])),
                      EffOf(last))

(* C4: effectiveness() fails with the precondition error (ValueError) and  *)
(* changes nothing while no economiser call has succeeded, and after a     *)
(* successful economiser call returns                                      *)
(* (econ_T2 - econ_T1) / (flue_T1 - econ_T1).                              *)
C4_EffectivenessPrecondition ==
    last.op = "effectiveness"
        => IF "economiser" \notin done
           THEN last.kind = "ValueError" /\ self = last.pre
           ELSE /\ last.kind = "ok"
                /\ last.ret = Div(Sub(self["econ_T2"], self["econ_T1"]),
                                  Sub(self["flue_T1"], self["econ_T1"]))

(* C5: while no boiler call has succeeded, efficiency(heat_supplied) fails *)
(* with the precondition error (ValueError) for every heat_supplied and    *)
(* leaves the object unchanged.                                            *)
C5_EfficiencyPrecondition ==
    (last.op = "efficiency" /\ "boiler" \notin done)
        => (last.kind = "ValueError" /\ self = last.pre)

C5_Witness ==
    /\ last.op = "efficiency"
    /\ last.args[1] = Zero
    /\ "boiler" \notin done
    /\ "economiser" \in done
    /\ last.kind = "ValueError"

(* C6: while no boiler call has succeeded, actual_heat() fails with the    *)
(* same precondition error kind as efficiency (ValueError).                *)
C6_ActualHeatPrecondition ==
    (last.op = "actual_heat" /\ "boiler" \notin done)
        => last.kind = "ValueError"

(* C7: while no boiler call has succeeded, superheater(t, e) with e in     *)
(* [0,1] fails with the precondition error (ValueError) and leaves every   *)
(* attribute unchanged.                                                    *)
C7_SuperheaterPrecondition ==
    (last.op = "superheater" /\ InUnit(EffOf(last)) /\ "boiler" \notin done)
        => (last.kind = "ValueError" /\ self = last.pre)

(* C8: once the boiler stage has been run (a boiler call its contract      *)
(* accepts has been made), a superheater call with an accepted efficiency  *)
(* leaves final_temp equal to its target and, when the target is below the *)
(* previous final_temp, superheater_heat equal to 0.                       *)
C8_SuperheaterAfterBoiler ==
    (last.op = "superheater" /\ InUnit(EffOf(last)) /\ "boiler" \in due)
        => /\ hasattr(self, "final_temp")
           /\ self["final_temp"] = last.args[1]
           /\ hasattr(last.pre, "final_temp")
           /\ (Lt(last.args[1], last.pre["final_temp"])
                   => self["superheater_heat"] = Zero)

(* C9: economiser(f1, f2) and economiser(f2, f1) applied to the same       *)
(* object end the same way and leave identical flue_T1, flue_T2 and        *)
(* econ_T2, both for every pair applicable in the current state and for    *)
(* the call that was last made.                                            *)
C9_EconomiserOrderIndependent ==
    /\ \A f1 \in FlueTemps, f2 \in FlueTemps :
           LET a == economiser(self, f1, f2)
               b == economiser(self, f2, f1)
           IN  /\ a.kind = b.kind
               /\ a.kind = "ok" => \A k \in FlueAttrs : a.self[k] = b.self[k]
    /\ (last.op = "economiser" /\ last.kind = "ok")
           => \A k \in FlueAttrs :
                  self[k] = economiser(last.pre, last.args[2], last.args[1]).self[k]

C9_Witness ==
    /\ last.op = "economiser"
    /\ last.kind = "ok"
    /\ Lt(last.args[1], last.args[2])
    /\ self["flue_T1"] = last.args[2]
    /\ self["flue_T2"] = last.args[1]

(* C10: once an economiser call has succeeded, flue_T1 >= flue_T2 and      *)
(* econ_T2 >= econ_T1; an economiser call that fails would have failed the *)
(* same way with any other pair of flue temperatures, so no pair is        *)
(* rejected because of its order.                                          *)
C10_FlueOrdered ==
    /\ "economiser" \in done
           => /\ (FlueAttrs \cup {"econ_T1"}) \subseteq DOMAIN self
              /\ Ge(self["flue_T1"], self["flue_T2"])
              /\ Ge(self["econ_T2"], self["econ_T1"])
    /\ (last.op = "economiser" /\ last.kind # "ok")
           => \A f1 \in FlueTemps, f2 \in FlueTemps :
                  economiser(last.pre, f1, f2).kind = last.kind

C10_Witness ==
    /\ "economiser" \in done
    /\ last.op = "economiser"
    /\ Lt(last.args[1], last.args[2])
    /\ Gt(self["flue_T1"], self["flue_T2"])
    /\ Gt(self["econ_T2"], self["econ_T1"])

Accepted(eff) == InUnit(eff) /\ eff # Zero

(* C11: air_preheater with an accepted efficiency fails with the           *)
(* missing-parameter error (ValueError) exactly when the economiser is not *)
(* fitted and no outlet temperature is supplied; with the economiser not   *)
(* fitted and an outlet temperature supplied (0 included) it succeeds and  *)
(* sets air_heat = cpair * (outlet - inlet) / efficiency, unclamped.       *)
C11_AirPreheaterMissingParameter ==
    (last.op = "air_preheater" /\ Accepted(EffOf(last)))
        => /\ (last.kind = "ValueError")
                  <=> (~hasattr(last.pre, "economiser_present")
                           /\ last.args[2] = None)
           /\ (~hasattr(last.pre, "economiser_present") /\ last.args[2] # None)
                  => /\ last.kind = "ok"
                     /\ self["air_heat"] =
                            Div(Mul(cpair, Sub(last.args[2], last.args[1])),
                                EffOf(last))

(* C12: when the economiser is fitted at the time air_preheater is called  *)
(* with an accepted efficiency, the call sets air_heat from the outlet     *)
(* temperature flue_T2 of the most recent economiser call, whatever outlet *)
(* temperature was supplied.                                               *)
C12_AirPreheaterUsesFlueT2 ==
    (last.op = "air_preheater" /\ Accepted(EffOf(last))
         /\ "economiser" \in done)
        => /\ last.kind = "ok"
           /\ self["air_heat"] =
                  Div(Mul(cpair, Sub(last.pre["flue_T2"], last.args[1])),
                      EffOf(last))

(* C13: a boiler call its contract accepts completes with the enthalpies   *)
(* looked up at econ_T2 when the economiser is fitted, else at the pump    *)
(* output pressure when the pump is fitted, else at the input pressure;    *)
(* final_temp is econ_T2 or the saturation temperature at that pressure,   *)
(* and boiler_heat = (h2 - h1) multiplied by the efficiency.               *)
C13_BoilerOperatingPoint ==
    (last.op = "boiler" /\ InUnit(EffOf(last)) /\ BoilerPointInRange(last.pre))
        => /\ last.kind = "ok"
           /\ {"h1", "h2", "final_temp", "boiler_heat"} \subseteq DOMAIN self
           /\ LET s == last.pre
                  Pb == IF hasattr(s, "pump_present")
                        THEN s["output_pressure_pump"]
                        ELSE s["input_pressure"]
              IN  IF hasattr(s, "economiser_present")
                  THEN /\ self["h1"] = State_T_getEnthalpy(s["econ_T2"], 0)
                       /\ self["h2"] = State_T_getEnthalpy(s["econ_T2"], 1)
                       /\ self["final_temp"] = s["econ_T2"]
                  ELSE /\ self["h1"] = State_P_getEnthalpy(Pb, 0)
                       /\ self["h2"] = State_P_getEnthalpy(Pb, 1)
                       /\ self["final_temp"] = State_P_getTemp(Pb)
           /\ self["boiler_heat"] = Mul(Sub(self["h2"], self["h1"]), EffOf(last))

(* C14: once the boiler stage has been run (a boiler call its contract     *)
(* accepts has been made), efficiency(heat_supplied) with a nonzero        *)
(* heat_supplied returns actual_heat() / heat_supplied, and actual_heat()  *)
(* returns boiler_heat - (economiser_heat + air_heat + pump_work +         *)
(* superheater_heat) over the current attribute values.                    *)
C14_EfficiencyIsActualHeatRatio ==
    (last.op = "efficiency" /\ last.args[1] # Zero /\ "boiler" \in due)
        => /\ last.kind = "ok"
           /\ actual_heat(self).kind = "ok"
           /\ last.ret = Div(actual_heat(self).ret, last.args[1])
           /\ actual_heat(self).ret =
                  Sub(self["boiler_heat"],
                      Add(self["economiser_heat"],
                          Add(self["air_heat"],
                              Add(self["pump_work"], self["superheater_heat"]))))

(* C15: the queries effectiveness(), efficiency(heat_supplied) and         *)
(* actual_heat() leave the set of attributes and all their values as they  *)
(* were, whether they return a value or fail.                              *)
Queries == {"effectiveness", "efficiency", "actual_heat"}

C15_QueriesPure ==
    last.op \in Queries => self = last.pre

C15_Witness ==
    /\ last.op = "effectiveness"
    /\ last.kind = "ok"
    /\ Gt(last.ret, Zero)
    /\ self = last.pre

(* C16: a stage call changes no attribute outside the stage's own:         *)
(* feed_pump the pump flag, output pressure and pump_work; economiser the  *)
(* economiser flag, econ_T1, econ_T2, flue_T1, flue_T2; air_preheater      *)
(* air_heat; boiler h1, h2, boiler_heat, final_temp; superheater           *)
(* superheater_heat and final_temp.                                        *)
Own(op) ==
    CASE op = "feed_pump" -> {"pump_present", "output_pressure_pump", "pump_work"}
      [] op = "economiser" ->
             {"economiser_present", "econ_T1", "econ_T2", "flue_T1", "flue_T2"}
      [] op = "air_preheater" -> {"air_heat"}
      [] op = "boiler" -> {"h1", "h2", "boiler_heat", "final_temp"}
      [] op = "superheater" -> {"superheater_heat", "final_temp"}
      [] OTHER -> {}

Stages == EffStages \cup {"economiser"}

C16_StageFrame ==
    last.op \in Stages
        => \A a \in (DOMAIN self \cup DOMAIN last.pre) \ Own(last.op) :
               /\ a \in DOMAIN self
               /\ a \in DOMAIN last.pre
               /\ self[a] = last.pre[a]

C16_Witness ==
    /\ last.op = "economiser"
    /\ last.kind = "ok"
    /\ hasattr(last.pre, "econ_T2")
    /\ self["econ_T2"] # last.pre["econ_T2"]
    /\ \A a \in DOMAIN last.pre \ Own("economiser") : self[a] = last.pre[a]

(* C17: a feed_pump call with an accepted efficiency made after a          *)
(* successful economiser call changes the pressure later stages use (the   *)
(* pump is fitted with the new output pressure) and leaves the stored      *)
(* econ_T1 and econ_T2 unchanged; an economiser call takes econ_T1 at the  *)
(* pump output pressure when the pump is fitted and at the input pressure  *)
(* otherwise.                                                              *)
C17_EconomiserInletPressure ==
    /\ (last.op = "feed_pump" /\ Accepted(EffOf(last)) /\ "economiser" \in done)
           => /\ hasattr(self, "pump_present")
              /\ hasattr(self, "output_pressure_pump")
              /\ self["output_pressure_pump"] = last.args[1]
              /\ self["econ_T1"] = last.pre["econ_T1"]
              /\ self["econ_T2"] = last.pre["econ_T2"]
    /\ (last.op = "economiser" /\ last.kind = "ok")
           => self["econ_T1"] =
                  State_P_getTemp(IF hasattr(last.pre, "pump_present")
                                  THEN last.pre["output_pressure_pump"]
                                  ELSE last.pre["input_pressure"])

(* C18: economiser_heat is 0 in every reachable state, whatever calls have *)
(* been made.                                                              *)
C18_EconomiserHeatZero ==
    hasattr(self, "economiser_heat") /\ self["economiser_heat"] = Zero

C18_Witness ==
    /\ "economiser" \in done
    /\ last.op = "economiser"
    /\ Gt(self["econ_T2"], self["econ_T1"])
    /\ self["economiser_heat"] = Zero

(* C19: calling a stage twice in a row with the same arguments leaves the  *)
(* object as a single call leaves it, for every stage, every argument and  *)
(* every reachable state.                                                  *)
C19_StageIdempotent ==
    /\ \A P2 \in Pressures, eff \in Effs :
           feed_pump(feed_pump(self, P2, eff).self, P2, eff).self
               = feed_pump(self, P2, eff).self
    /\ \A f1 \in FlueTemps, f2 \in FlueTemps :
           economiser(economiser(self, f1, f2).self, f1, f2).self
               = economiser(self, f1, f2).self
    /\ \A Tp1 \in AirIn, Tp2 \in AirOut, eff \in Effs :
           air_preheater(air_preheater(self, Tp1, Tp2, eff).self, Tp1, Tp2, eff).self
               = air_preheater(self, Tp1, Tp2, eff).self
    /\ \A eff \in Effs :
           boiler(boiler(self, eff).self, eff).self = boiler(self, eff).self
    /\ \A t \in Targets, eff \in Effs :
           superheater(superheater(self, t, eff).self, t, eff).self
               = superheater(self, t, eff).self

C19_Witness ==
    /\ last.op = "economiser"
    /\ last.kind = "ok"
    /\ hasattr(last.pre, "flue_T1")
    /\ last.pre["flue_T1"] = IF Gt(last.args[2], last.args[1])
                             THEN last.args[2] ELSE last.args[1]
    /\ last.pre["flue_T2"] = IF Gt(last.args[2], last.args[1])
                             THEN last.args[1] ELSE last.args[2]
    /\ Gt(self["flue_T1"], self["flue_T2"])
    /\ self = last.pre

(* C20: a presence marker implies the data of its stage: pump_present      *)
(* implies the pump output pressure; economiser_present implies econ_T1,   *)
(* econ_T2, flue_T1 and flue_T2; boiler_heat implies h1, h2 and            *)
(* final_temp.                                                             *)
C20_MarkerImpliesData ==
    /\ hasattr(self, "pump_present") => hasattr(self, "output_pressure_pump")
    /\ hasattr(self, "economiser_present")
           => {"econ_T1", "econ_T2", "flue_T1", "flue_T2"} \subseteq DOMAIN self
    /\ hasattr(self, "boiler_heat")
           => {"h1", "h2", "final_temp"} \subseteq DOMAIN self

====
